---- MODULE Spec2Model ----
(***************************************************************************)
(* A model of gravestone (src/main.rs): the multi-cause Error value, the   *)
(* date parser, the table parser, the envelope parser and the EMS Russian  *)
(* Post retriever that composes them.                                      *)
(*                                                                         *)
(* Text is a sequence of one-character strings, so that the date parser    *)
(* scans its input character by character.  An HTML document is the tree   *)
(* select::Document builds: a sequence of elements, each with a class and  *)
(* its tr rows, each row a sequence of th/td cells with their text.  A     *)
(* response body is the outcome class of its UTF-8 and JSON decoding       *)
(* together with the JSON value it holds.                                  *)
(***************************************************************************)
EXTENDS Integers, Sequences, FiniteSets, TLC

VARIABLES
    error,           \* Error spec: Some(the Error value being built), or None
    date_arg,        \* Date spec: the date_str given to _parse_date
    date_result,     \* Date spec: Some(what _parse_date returned), or None
    table_arg,       \* Table spec: the table_str given to _parse_table (a document)
    table_result,    \* Table spec: Some(what _parse_table returned), or None
    response_arg,    \* Envelope spec: the response given to _process_response
    process_result,  \* Envelope spec: Some(what _process_response returned), or None
    pc,              \* Retriever spec: position inside get_tracking_info
    received,        \* Retriever spec: Some(what send() returned), or None
    request_result,  \* Retriever spec: Some(what _make_request returned), or None
    processed,       \* Retriever spec: Some(the bytes given to _process_response), or None
    tracking_result  \* Retriever spec: Some(what get_tracking_info returned), or None

vars == <<error, date_arg, date_result, table_arg, table_result, response_arg,
          process_result, pc, received, request_result, processed, tracking_result>>

----------------------------------------------------------------------------
(* Option<T> and Result<T> *)

None == <<>>

Some(v) == <<v>>

IsSome(o) == o # None

unwrap(o) == o[1]

Ok(v) == [tag |-> "Ok", val |-> v]

Err(e) == [tag |-> "Err", val |-> e]

IsOk(r) == r.tag = "Ok"

IsErr(r) == r.tag = "Err"

----------------------------------------------------------------------------
(* ErrorType and Error *)

ErrorKinds == {"JsonParserError", "Utf8Error", "HyperError", "IoError",
               "TrackingRequestError", "ProcessResponseFailedError",
               "HtmlStructureError", "DateTimeParseError"}

\* One ErrorType value.  code is the status of a TrackingRequestError (0
\* otherwise); body is its Option<Vec<u8>>; message is the String of
\* ProcessResponseFailedError and HtmlStructureError, or the Option<String>
\* of TrackingRequestError.
ErrorType(kind, code, body, message) ==
    [kind |-> kind, code |-> code, body |-> body, message |-> message]

JsonParserError == ErrorType("JsonParserError", 0, None, None)

Utf8Error == ErrorType("Utf8Error", 0, None, None)

HyperError == ErrorType("HyperError", 0, None, None)

IoError == ErrorType("IoError", 0, None, None)

DateTimeParseError == ErrorType("DateTimeParseError", 0, None, None)

TrackingRequestError(code, body, message) ==
    ErrorType("TrackingRequestError", code, body, message)

ProcessResponseFailedError(message) ==
    ErrorType("ProcessResponseFailedError", 0, None, Some(message))

HtmlStructureError(message) ==
    ErrorType("HtmlStructureError", 0, None, Some(message))

\* Error::new: bases = vec![error_type] (the backtrace is diagnostic only).
Error_new(error_type) == <<error_type>>

\* Error::caused_by, as a buggy build would write it: the new cause in front.
caused_by_front(self, error_type) == <<error_type>> \o self

\* Error::caused_by: self.bases.push(error_type).
caused_by(self, error_type) == Append(self, error_type)

----------------------------------------------------------------------------
(* Text scanning, as chrono's format::scan and format::parse do it *)

Digits == {"0", "1", "2", "3", "4", "5", "6", "7", "8", "9"}

DigitVal(c) ==
    CASE c = "0" -> 0 [] c = "1" -> 1 [] c = "2" -> 2 [] c = "3" -> 3
      [] c = "4" -> 4 [] c = "5" -> 5 [] c = "6" -> 6 [] c = "7" -> 7
      [] c = "8" -> 8 [] c = "9" -> 9

IsWhitespace(c) == c = " "

\* str::trim_left
RECURSIVE trim_left(_)
trim_left(s) ==
    IF s # <<>> /\ IsWhitespace(Head(s)) THEN trim_left(Tail(s)) ELSE s

\* The number of leading digits of s, looking at no more than max characters.
RECURSIVE upto(_, _)
upto(s, max) ==
    IF max = 0 \/ s = <<>> \/ Head(s) \notin Digits
    THEN 0
    ELSE 1 + upto(Tail(s), max - 1)

\* The decimal value of a sequence of digits.
RECURSIVE ToInt(_)
ToInt(s) ==
    IF s = <<>> THEN 0
    ELSE 10 * ToInt(SubSeq(s, 1, Len(s) - 1)) + DigitVal(s[Len(s)])

ScanFail == [ok |-> FALSE, val |-> 0, rest |-> <<>>]

\* The first n characters of s as a number, when they are at least `least`.
take_digits(s, least, n) ==
    IF n < least THEN ScanFail
    ELSE [ok |-> TRUE, val |-> ToInt(SubSeq(s, 1, n)),
          rest |-> SubSeq(s, n + 1, Len(s))]

\* scan::number(s, min, max): between min and max digits, as many as there are.
number(s, min, max) == take_digits(s, min, upto(s, max))

negated(negative, r) == IF negative /\ r.ok THEN [r EXCEPT !.val = 0 - r.val] ELSE r

\* A numeric item once leading whitespace is gone: a signed item (the year)
\* takes an explicit sign followed by any number of digits, and otherwise
\* no more than width digits.
scan_signed(s, width, signed) ==
    LET has_sign == signed /\ s # <<>> /\ Head(s) \in {"-", "+"}
    IN  negated(has_sign /\ Head(s) = "-",
                number(IF has_sign THEN Tail(s) ELSE s, 1,
                       IF has_sign THEN Len(s) ELSE width))

\* One numeric item of a format: leading whitespace is skipped.
Numeric(s, width, signed) == scan_signed(trim_left(s), width, signed)

\* One literal item of a format: the text must start with it.
Literal(s, lit) ==
    IF Len(s) >= Len(lit) /\ SubSeq(s, 1, Len(lit)) = lit
    THEN [ok |-> TRUE, val |-> 0, rest |-> SubSeq(s, Len(lit) + 1, Len(s))]
    ELSE ScanFail

\* One whitespace item of a format: reads zero or more whitespace.
Space(s) == [ok |-> TRUE, val |-> 0, rest |-> trim_left(s)]

NumericItem(field, width, signed) ==
    [item |-> "Numeric", field |-> field, width |-> width, signed |-> signed,
     lit |-> <<>>]

LiteralItem(lit) ==
    [item |-> "Literal", field |-> "", width |-> 0, signed |-> FALSE, lit |-> lit]

SpaceItem ==
    [item |-> "Space", field |-> "", width |-> 0, signed |-> FALSE, lit |-> <<>>]

\* The items of the format string "%d.%m.%Y %H:%M".
DATE_FORMAT ==
    << NumericItem("day", 2, FALSE), LiteralItem(<<".">>),
       NumericItem("month", 2, FALSE), LiteralItem(<<".">>),
       NumericItem("year", 4, TRUE), SpaceItem,
       NumericItem("hour", 2, FALSE), LiteralItem(<<":">>),
       NumericItem("minute", 2, FALSE) >>

Unparsed == [f \in {"day", "month", "year", "hour", "minute"} |-> 0]

\* What one item reads from the text.
scan_item(it, s) ==
    CASE it.item = "Numeric" -> Numeric(s, it.width, it.signed)
      [] it.item = "Literal" -> Literal(s, it.lit)
      [] it.item = "Space"   -> Space(s)

RECURSIVE parse(_, _, _)

\* The step of format::parse after an item has read r: a failed item ends
\* the parse, a numeric item stores its value, and the next items read the
\* rest of the text.
parse_item(parsed, it, r, items) ==
    IF ~r.ok THEN [ok |-> FALSE, parsed |-> parsed]
    ELSE parse(IF it.item = "Numeric" THEN [parsed EXCEPT ![it.field] = r.val]
               ELSE parsed,
               r.rest, items)

\* format::parse: the items consume the text left to right; text left over
\* after the last item is an error.
parse(parsed, s, items) ==
    IF items = <<>>
    THEN [ok |-> s = <<>>, parsed |-> parsed]
    ELSE parse_item(parsed, Head(items), scan_item(Head(items), s), Tail(items))

IsLeapYear(y) == (y % 4 = 0 /\ y % 100 # 0) \/ y % 400 = 0

DaysInMonth(y, m) ==
    IF m = 2 THEN (IF IsLeapYear(y) THEN 29 ELSE 28)
    ELSE IF m \in {4, 6, 9, 11} THEN 30 ELSE 31

\* A date and a time of day that exist (NaiveDate::from_ymd_opt and
\* NaiveTime::from_hms_opt give Some).
ValidDateTime(y, m, d, h, mi) ==
    /\ y \in -262144..262143
    /\ m \in 1..12
    /\ d \in 1..DaysInMonth(y, m)
    /\ h \in 0..23
    /\ mi \in 0..59

\* UTC.ymd(y, m, d).and_hms(h, mi, s)
ymd_and_hms(y, m, d, h, mi, s) ==
    [year |-> y, month |-> m, day |-> d, hour |-> h, minute |-> mi, second |-> s]

\* to_datetime, as a build that does not validate the fields would write it.
to_datetime_unchecked(r) ==
    IF r.ok
    THEN Some(ymd_and_hms(r.parsed.year, r.parsed.month, r.parsed.day,
                          r.parsed.hour, r.parsed.minute, 0))
    ELSE None

\* Parsed::to_datetime_with_timezone(&UTC): the UTC timestamp of the parsed
\* fields; the seconds, absent from the format, are 0.
to_datetime(r) ==
    IF r.ok /\ ValidDateTime(r.parsed.year, r.parsed.month, r.parsed.day,
                             r.parsed.hour, r.parsed.minute)
    THEN Some(ymd_and_hms(r.parsed.year, r.parsed.month, r.parsed.day,
                          r.parsed.hour, r.parsed.minute, 0))
    ELSE None

\* UTC.datetime_from_str(s, fmt)
datetime_from_str(s, fmt) == to_datetime(parse(Unparsed, s, fmt))

\* Ok(...?) with From<chrono::ParseError> for Error
ok_or_parse_error(o) ==
    IF IsSome(o) THEN Ok(unwrap(o)) ELSE Err(Error_new(DateTimeParseError))

\* EMSRussianPostRetriever::_parse_date
_parse_date(s) == ok_or_parse_error(datetime_from_str(s, DATE_FORMAT))

----------------------------------------------------------------------------
(* The table parser *)

\* TrackingStatusInfo::default(): every field absent.
TrackingStatusInfo_default ==
    [date |-> None, zip_code |-> None, description |-> None, status |-> None,
     weight |-> None]

\* document.find(Class(class)).first(): the first element carrying the class.
RECURSIVE find_class_first(_, _)
find_class_first(document, class) ==
    IF document = <<>> THEN None
    ELSE IF Head(document).class = class THEN Some(Head(document))
    ELSE find_class_first(Tail(document), class)

\* row.find(Name("td")).iter().map(|cell| cell.text()).collect(): the texts
\* of the td cells of a row, in document order.
RECURSIVE cells_text(_)
cells_text(row) ==
    IF row = <<>> THEN <<>>
    ELSE IF Head(row).name = "td"
         THEN <<Head(row).text>> \o cells_text(Tail(row))
         ELSE cells_text(Tail(row))

\* Vec::get(i), with i counted from 0.
vec_get(v, i) == IF i < Len(v) THEN Some(v[i + 1]) ELSE None

\* Iterator::skip(n)
skip(rows, n) == SubSeq(rows, n + 1, Len(rows))

\* The match on _parse_date, as a build that propagates the failure with ?
\* would write it.
date_or_error(parsed) ==
    IF IsOk(parsed) THEN Ok(Some(parsed.val)) ELSE parsed

\* The match on the result of _parse_date in the loop body: a date that
\* does not parse is logged and leaves the field absent.
date_or_none(parsed) ==
    IF IsOk(parsed) THEN Ok(Some(parsed.val)) ELSE Ok(None)

\* The loop body after the date, as a build that makes the weight optional
\* would write it: a row without a weight cell is pushed without a weight.
rest_of_row_optional_weight(cells, date) ==
    IF IsErr(date) THEN date
    ELSE IF ~IsSome(vec_get(cells, 1))
    THEN Err(Error_new(HtmlStructureError("Cannot get zip code text from cell")))
    ELSE IF ~IsSome(vec_get(cells, 2))
    THEN Err(Error_new(HtmlStructureError("Cannot get description text from cell")))
    ELSE IF ~IsSome(vec_get(cells, 3))
    THEN Err(Error_new(HtmlStructureError("Cannot get status text from cell")))
    ELSE Ok([TrackingStatusInfo_default EXCEPT
                !.date = date.val,
                !.zip_code = vec_get(cells, 1),
                !.description = vec_get(cells, 2),
                !.status = vec_get(cells, 3),
                !.weight = vec_get(cells, 4)])

\* The loop body after the date: the zip code, description, status and
\* weight cells, each an early return when missing, then the record to push.
rest_of_row(cells, date) ==
    IF IsErr(date) THEN date
    ELSE IF ~IsSome(vec_get(cells, 1))
    THEN Err(Error_new(HtmlStructureError("Cannot get zip code text from cell")))
    ELSE IF ~IsSome(vec_get(cells, 2))
    THEN Err(Error_new(HtmlStructureError("Cannot get description text from cell")))
    ELSE IF ~IsSome(vec_get(cells, 3))
    THEN Err(Error_new(HtmlStructureError("Cannot get status text from cell")))
    ELSE IF ~IsSome(vec_get(cells, 4))
    THEN Err(Error_new(HtmlStructureError("Cannot get weight text from cell")))
    ELSE Ok([TrackingStatusInfo_default EXCEPT
                !.date = date.val,
                !.zip_code = vec_get(cells, 1),
                !.description = vec_get(cells, 2),
                !.status = vec_get(cells, 3),
                !.weight = vec_get(cells, 4)])

\* The loop body from the cell texts on: the date cell first.
status_info_of(cells) ==
    IF ~IsSome(vec_get(cells, 0))
    THEN Err(Error_new(HtmlStructureError("Cannot get date text from cell")))
    ELSE rest_of_row(cells, date_or_none(_parse_date(unwrap(vec_get(cells, 0)))))

\* The body of the loop over the rows: Ok(status_info) when the row is to be
\* pushed, Err(error) when the body returns early.
row_status_info(row) == status_info_of(cells_text(row))

RECURSIVE parse_rows(_, _)

\* The end of the loop body: an early return is the return of the function,
\* and otherwise the record is pushed and the loop goes on.
push_row(rows, result, r) ==
    IF IsErr(r) THEN r
    ELSE parse_rows(Tail(rows), Append(result, r.val))

\* The loop over the rows.
parse_rows(rows, result) ==
    IF rows = <<>> THEN Ok(result)
    ELSE push_row(rows, result, row_status_info(Head(rows)))

\* _parse_table, as a build that forgets skip(1) would write it.
_parse_table_no_skip(table_str) ==
    LET table == find_class_first(table_str, "emsNumber")
    IN  IF ~IsSome(table)
        THEN Err(Error_new(HtmlStructureError("Class not found: \"emsNumber\"")))
        ELSE parse_rows(unwrap(table).rows, <<>>)

\* _parse_table, as a build that treats a missing table as no rows would
\* write it.
_parse_table_empty_on_missing(table_str) ==
    LET table == find_class_first(table_str, "emsNumber")
    IN  IF ~IsSome(table)
        THEN Ok(<<>>)
        ELSE parse_rows(skip(unwrap(table).rows, 1), <<>>)

\* EMSRussianPostRetriever::_parse_table
_parse_table(table_str) ==
    LET table == find_class_first(table_str, "emsNumber")
    IN  IF ~IsSome(table)
        THEN Err(Error_new(HtmlStructureError("Class not found: \"emsNumber\"")))
        ELSE parse_rows(skip(unwrap(table).rows, 1), <<>>)

----------------------------------------------------------------------------
(* The envelope parser *)

\* A JSON value: its type, the text of a string, the members of an object.
Json(type, str, members) == [type |-> type, str |-> str, members |-> members]

\* Json::as_object
as_object(json) == IF json.type = "Object" THEN Some(json.members) ELSE None

\* BTreeMap::get
object_get(object, key) ==
    IF key \in DOMAIN object THEN Some(object[key]) ELSE None

\* Json::as_string
as_string(json) == IF json.type = "String" THEN Some(json.str) ELSE None

\* EMSRussianPostRetriever::_parse_json: std::str::from_utf8, then
\* Json::from_str.
_parse_json(response) ==
    IF ~response.utf8 THEN Err(Error_new(Utf8Error))
    ELSE IF ~response.json THEN Err(Error_new(JsonParserError))
    ELSE Ok(response.value)

\* root_json.as_object().and_then(|root_object| root_object.get("d"))
get_d(root_json) ==
    IF IsSome(as_object(root_json))
    THEN object_get(unwrap(as_object(root_json)), "d")
    ELSE None

\* .and_then(|data| data.as_string()), as a build that takes whatever is
\* under "d" would write it: the text of the value, string or not.
data_as_text(data) ==
    IF IsSome(data) THEN Some(unwrap(data).str) ELSE None

\* .and_then(|data| data.as_string())
data_as_string(data) ==
    IF IsSome(data) THEN as_string(unwrap(data)) ELSE None

\* The rest of _process_response once the string under "d" has been looked up.
table_of(table_text) ==
    IF ~IsSome(table_text)
    THEN Err(Error_new(ProcessResponseFailedError("Wrong JSON content")))
    ELSE _parse_table(unwrap(table_text))

\* The rest of _process_response once _parse_json has returned.
process_json(root_json) ==
    IF IsErr(root_json) THEN root_json
    ELSE table_of(data_as_string(get_d(root_json.val)))

\* EMSRussianPostRetriever::_process_response
_process_response(response) == process_json(_parse_json(response))

----------------------------------------------------------------------------
(* The retriever *)

\* hyper::Ok, the status 200
hyper_Ok == 200

REQUEST_MESSAGE == "Cannot get tracking data from EMS Russian Post"

\* from_http_response, as a build that puts the rejection first would write it.
from_http_response_rejected_first(http_response, message) ==
    IF http_response.readable
    THEN Error_new(TrackingRequestError(http_response.status,
                                        Some(http_response.body), message))
    ELSE caused_by(Error_new(TrackingRequestError(http_response.status, None, message)),
                   IoError)

\* from_http_response, as a build that drops the rejection when the body
\* cannot be read would write it.
from_http_response_io_only(http_response, message) ==
    IF http_response.readable
    THEN Error_new(TrackingRequestError(http_response.status,
                                        Some(http_response.body), message))
    ELSE Error_new(IoError)

\* Error::from_http_response: read_to_end gives the body, or fails.
from_http_response(http_response, message) ==
    IF http_response.readable
    THEN Error_new(TrackingRequestError(http_response.status,
                                        Some(http_response.body), message))
    ELSE caused_by(Error_new(IoError),
                   TrackingRequestError(http_response.status, None, message))

\* EMSRussianPostRetriever::_make_request, given what send() returned.
_make_request(sent) ==
    IF IsErr(sent) THEN Err(Error_new(HyperError))
    ELSE LET http_response == sent.val
         IN  IF http_response.status = hyper_Ok
             THEN IF http_response.readable
                  THEN Ok(http_response.body)
                  ELSE Err(Error_new(IoError))
             ELSE Err(from_http_response(http_response, Some(REQUEST_MESSAGE)))

\* impl fmt::Display for Error: what fmt writes, or the panic it ends in.
fmt(self) ==
    IF self = <<>> THEN [panic |-> TRUE, text |-> <<"Error without bases">>]
    ELSE LET first == self[1]
         IN  IF first.kind = "HtmlStructureError"
             THEN [panic |-> FALSE,
                   text |-> <<"Wrong HTML document structure: ", first.message>>]
             ELSE IF first.kind = "TrackingRequestError"
             THEN IF ~IsSome(first.body)
                  THEN [panic |-> TRUE, text |-> <<"unwrap on None">>]
                  ELSE [panic |-> FALSE,
                        text |-> <<first.code, first.body,
                                   IF IsSome(first.message) THEN first.message
                                   ELSE Some("None")>>]
             ELSE [panic |-> FALSE, text |-> <<first.kind>>]

----------------------------------------------------------------------------
(* Bounds and inputs *)

\* The longest cause list built.
MaxCauses == 3

\* The most rows after the first one in a generated table.
MaxDataRows == 2

\* The most cells in a generated data row.
MaxCells == 6

SeqsUpTo(S, n) == UNION {[1..k -> S] : k \in 0..n}

ErrorSamples ==
    {JsonParserError, Utf8Error, HyperError, IoError, DateTimeParseError,
     TrackingRequestError(404, None, Some(REQUEST_MESSAGE)),
     ProcessResponseFailedError("Wrong JSON content"),
     HtmlStructureError("Class not found: \"emsNumber\"")}

DayTexts ==
    {<<"2", "4">>, <<"4">>, <<" ", "4">>, <<"2", "9">>, <<"3", "1">>,
     <<"3", "2">>, <<>>, <<"x", "4">>}

DaySeps == {<<".">>, <<"-">>}

MonthTexts == {<<"0", "8">>, <<"8">>, <<"0", "2">>, <<"1", "3">>}

YearTexts ==
    {<<"2", "0", "1", "6">>, <<"2", "0", "1", "5">>, <<"1", "6">>,
     <<"+", "2", "0", "1", "6">>}

Gaps == {<<" ">>, <<>>, <<" ", " ">>, <<"T">>}

HourTexts == {<<"1", "1">>, <<"9">>, <<"2", "4">>}

MinuteTexts == {<<"3", "5">>, <<"5">>, <<"6", "0">>}

Tails == {<<>>, <<":", "0", "0">>, <<" ">>}

\* "2016-08-24 11:35" and "24.08.2016"
OtherDateTexts ==
    {<<"2", "0", "1", "6", "-", "0", "8", "-", "2", "4", " ", "1", "1", ":", "3", "5">>,
     <<"2", "4", ".", "0", "8", ".", "2", "0", "1", "6">>}

DateInputs ==
    OtherDateTexts \cup
    {d \o s1 \o m \o <<".">> \o y \o g \o h \o <<":">> \o mi \o t :
        d \in DayTexts, s1 \in DaySeps, m \in MonthTexts, y \in YearTexts,
        g \in Gaps, h \in HourTexts, mi \in MinuteTexts, t \in Tails}

Cell(name, text) == [name |-> name, text |-> text]

Element(class, rows) == [class |-> class, rows |-> rows]

Variants == {"a", "b", "c"}

\* "24.11.2016 16:30", "25.11.2016 00:10", and a text that is no date
DateOf(v) ==
    CASE v = "a" -> <<"2", "4", ".", "1", "1", ".", "2", "0", "1", "6", " ",
                      "1", "6", ":", "3", "0">>
      [] v = "c" -> <<"2", "5", ".", "1", "1", ".", "2", "0", "1", "6", " ",
                      "0", "0", ":", "1", "0">>
      [] OTHER   -> <<"-">>

CellText(v, k) ==
    CASE k = 1 -> DateOf(v)
      [] k = 2 -> <<"Z", v>>
      [] k = 3 -> <<"D", v>>
      [] k = 4 -> <<"S", v>>
      [] k = 5 -> <<"W", v>>
      [] OTHER -> <<"-">>

Row(v, n) == [k \in 1..n |-> Cell("td", CellText(v, k))]

HeaderRow == [k \in 1..7 |-> Cell("th", <<"H">>)]

DataRows ==
    {Row("a", 0), <<Cell("th", <<"H">>)>> \o Row("a", 5)}
    \cup {Row(v, n) : v \in Variants, n \in 1..MaxCells}

FirstRows == {HeaderRow, Row("c", 5)}

Tables ==
    {<<>>} \cup {<<f>> \o d : f \in FirstRows, d \in SeqsUpTo(DataRows, MaxDataRows)}

Classes == {"emsNumber", "emsHeader"}

Prefixes ==
    {<<>>,
     <<Element("emsHeader", <<Row("b", 2), Row("b", 2)>>)>>,
     <<Element("emsNumber", <<HeaderRow, Row("c", 5)>>)>>}

Documents ==
    {<<>>} \cup {pre \o <<Element(c, t)>> : pre \in Prefixes, c \in Classes, t \in Tables}

EnvelopeRows == {Row("a", 5), Row("b", 6), Row("c", 4)}

EnvelopeDocuments ==
    {<<>>} \cup
    {<<Element(c, <<HeaderRow>> \o d)>> :
        c \in Classes, d \in SeqsUpTo(EnvelopeRows, MaxDataRows)}

JsonScalars ==
    {Json("Null", <<>>, <<>>), Json("Number", <<>>, <<>>), Json("Array", <<>>, <<>>)}

JsonStrings == {Json("String", d, <<>>) : d \in EnvelopeDocuments}

JsonMembers ==
    {<<>>}
    \cup {"d" :> v : v \in JsonScalars \cup JsonStrings}
    \cup {"x" :> v : v \in JsonScalars}
    \cup {("d" :> v) @@ ("x" :> w) : v \in JsonScalars \cup JsonStrings,
                                     w \in {Json("String", <<>>, <<>>)}}

JsonValues ==
    JsonScalars
    \cup {Json("String", d, <<>>) : d \in {<<>>, <<Element("emsNumber", <<HeaderRow, Row("a", 5)>>)>>}}
    \cup {Json("Object", <<>>, m) : m \in JsonMembers}

\* A response body: whether the bytes are UTF-8, whether the text is JSON,
\* and the value the JSON text denotes.
Bodies ==
    {[utf8 |-> u, json |-> j, value |-> v] :
        u \in BOOLEAN, j \in BOOLEAN, v \in JsonValues}

Statuses == {200, 201, 204, 302, 404, 500}

\* What send() returns: a transport error, or a response with its status,
\* its body, and whether read_to_end on it succeeds.
SendOutcomes ==
    {Err(Error_new(HyperError))} \cup
    {Ok([status |-> st, body |-> b, readable |-> r]) :
        st \in Statuses, b \in Bodies, r \in BOOLEAN}

----------------------------------------------------------------------------
(* Specifications *)

Idle ==
    /\ error = None
    /\ date_arg = None
    /\ date_result = None
    /\ table_arg = None
    /\ table_result = None
    /\ response_arg = None
    /\ process_result = None
    /\ pc = "idle"
    /\ received = None
    /\ request_result = None
    /\ processed = None
    /\ tracking_result = None

\* Error::new builds the value.
ErrorNew ==
    /\ error = None
    /\ \E error_type \in ErrorSamples : error' = Some(Error_new(error_type))
    /\ UNCHANGED <<date_arg, date_result, table_arg, table_result, response_arg,
                   process_result, pc, received, request_result, processed,
                   tracking_result>>

\* Error::caused_by consumes the value and returns it with one more cause.
ErrorCausedBy ==
    /\ error # None
    /\ Len(unwrap(error)) < MaxCauses
    /\ \E error_type \in ErrorSamples :
          error' = Some(caused_by(unwrap(error), error_type))
    /\ UNCHANGED <<date_arg, date_result, table_arg, table_result, response_arg,
                   process_result, pc, received, request_result, processed,
                   tracking_result>>

InitError == Idle

NextError == ErrorNew \/ ErrorCausedBy

SpecError == InitError /\ [][NextError]_vars

InitDate ==
    /\ date_arg \in DateInputs
    /\ error = None
    /\ date_result = None
    /\ table_arg = None
    /\ table_result = None
    /\ response_arg = None
    /\ process_result = None
    /\ pc = "idle"
    /\ received = None
    /\ request_result = None
    /\ processed = None
    /\ tracking_result = None

ParseDate ==
    /\ date_result = None
    /\ date_result' = Some(_parse_date(date_arg))
    /\ UNCHANGED <<error, date_arg, table_arg, table_result, response_arg,
                   process_result, pc, received, request_result, processed,
                   tracking_result>>

NextDate == ParseDate

SpecDate == InitDate /\ [][NextDate]_vars

InitTable ==
    /\ table_arg \in Documents
    /\ error = None
    /\ date_arg = None
    /\ date_result = None
    /\ table_result = None
    /\ response_arg = None
    /\ process_result = None
    /\ pc = "idle"
    /\ received = None
    /\ request_result = None
    /\ processed = None
    /\ tracking_result = None

ParseTable ==
    /\ table_result = None
    /\ table_result' = Some(_parse_table(table_arg))
    /\ UNCHANGED <<error, date_arg, date_result, table_arg, response_arg,
                   process_result, pc, received, request_result, processed,
                   tracking_result>>

NextTable == ParseTable

SpecTable == InitTable /\ [][NextTable]_vars

InitEnvelope ==
    /\ response_arg \in Bodies
    /\ error = None
    /\ date_arg = None
    /\ date_result = None
    /\ table_arg = None
    /\ table_result = None
    /\ process_result = None
    /\ pc = "idle"
    /\ received = None
    /\ request_result = None
    /\ processed = None
    /\ tracking_result = None

ProcessResponse ==
    /\ process_result = None
    /\ process_result' = Some(_process_response(response_arg))
    /\ UNCHANGED <<error, date_arg, date_result, table_arg, table_result,
                   response_arg, pc, received, request_result, processed,
                   tracking_result>>

NextEnvelope == ProcessResponse

SpecEnvelope == InitEnvelope /\ [][NextEnvelope]_vars

InitRetriever ==
    /\ pc = "start"
    /\ error = None
    /\ date_arg = None
    /\ date_result = None
    /\ table_arg = None
    /\ table_result = None
    /\ response_arg = None
    /\ process_result = None
    /\ received = None
    /\ request_result = None
    /\ processed = None
    /\ tracking_result = None

\* get_tracking_info calls _make_request.
MakeRequest ==
    /\ pc = "start"
    /\ \E sent \in SendOutcomes :
          /\ received' = Some(sent)
          /\ request_result' = Some(_make_request(sent))
    /\ pc' = "requested"
    /\ UNCHANGED <<error, date_arg, date_result, table_arg, table_result,
                   response_arg, process_result, processed, tracking_result>>

\* _make_request gave the body: get_tracking_info returns what
\* _process_response makes of it.
ProcessReceived ==
    /\ pc = "requested"
    /\ IsOk(unwrap(request_result))
    /\ processed' = Some(unwrap(request_result).val)
    /\ tracking_result' = Some(_process_response(unwrap(request_result).val))
    /\ pc' = "done"
    /\ UNCHANGED <<error, date_arg, date_result, table_arg, table_result,
                   response_arg, process_result, received, request_result>>

\* _make_request failed: the ? of get_tracking_info returns its error.
PropagateError ==
    /\ pc = "requested"
    /\ IsErr(unwrap(request_result))
    /\ tracking_result' = request_result
    /\ pc' = "done"
    /\ UNCHANGED <<error, date_arg, date_result, table_arg, table_result,
                   response_arg, process_result, received, request_result,
                   processed>>

NextRetriever == MakeRequest \/ ProcessReceived \/ PropagateError

SpecRetriever == InitRetriever /\ [][NextRetriever]_vars

----------------------------------------------------------------------------
(* What the claims speak of, stated on the inputs themselves *)

HasEmsNumber(document) ==
    \E i \in 1..Len(document) : document[i].class = "emsNumber"

FirstEmsNumber(document) ==
    document[CHOOSE i \in 1..Len(document) :
                /\ document[i].class = "emsNumber"
                /\ \A j \in 1..(i - 1) : document[j].class # "emsNumber"]

\* The tr rows of the first emsNumber element other than the first row.
DataRowsOf(document) ==
    LET rows == FirstEmsNumber(document).rows
    IN  [i \in 1..(IF rows = <<>> THEN 0 ELSE Len(rows) - 1) |-> rows[i + 1]]

TdIndexes(row) == {i \in 1..Len(row) : row[i].name = "td"}

TdCount(row) == Cardinality(TdIndexes(row))

\* The text of td cell k of a row, k counted from 0.
TdText(row, k) ==
    row[CHOOSE i \in TdIndexes(row) :
            Cardinality({j \in TdIndexes(row) : j < i}) = k].text

MissingCellMessage(n) ==
    CASE n = 0 -> "Cannot get date text from cell"
      [] n = 1 -> "Cannot get zip code text from cell"
      [] n = 2 -> "Cannot get description text from cell"
      [] n = 3 -> "Cannot get status text from cell"
      [] n = 4 -> "Cannot get weight text from cell"

DateUnparseable(text) == IsErr(_parse_date(text))

ExpectedRecord(row) ==
    [date        |-> IF DateUnparseable(TdText(row, 0)) THEN None
                     ELSE Some(_parse_date(TdText(row, 0)).val),
     zip_code    |-> Some(TdText(row, 1)),
     description |-> Some(TdText(row, 2)),
     status      |-> Some(TdText(row, 3)),
     weight      |-> Some(TdText(row, 4))]

\* DD.MM.YYYY HH:MM, character by character.
StrictForm(s) ==
    /\ Len(s) = 16
    /\ s[3] = "." /\ s[6] = "." /\ s[11] = " " /\ s[14] = ":"
    /\ \A i \in {1, 2, 4, 5, 7, 8, 9, 10, 12, 13, 15, 16} : s[i] \in Digits

TwoDigits(s, i) == 10 * DigitVal(s[i]) + DigitVal(s[i + 1])

StrictYear(s) == 100 * TwoDigits(s, 7) + TwoDigits(s, 9)

LeapYear(y) == (y % 4 = 0 /\ y % 100 # 0) \/ y % 400 = 0

MonthLength(y, m) ==
    CASE m = 2 -> (IF LeapYear(y) THEN 29 ELSE 28)
      [] m \in {4, 6, 9, 11} -> 30
      [] OTHER -> 31

\* A timestamp that exists, with the seconds at 0.
CalendarTimestamp(t) ==
    /\ t.month \in 1..12
    /\ t.day \in 1..MonthLength(t.year, t.month)
    /\ t.hour \in 0..23
    /\ t.minute \in 0..59
    /\ t.second = 0

StrictTimestamp(s) ==
    [year |-> StrictYear(s), month |-> TwoDigits(s, 4), day |-> TwoDigits(s, 1),
     hour |-> TwoDigits(s, 12), minute |-> TwoDigits(s, 15), second |-> 0]

StrictValid(s) == StrictForm(s) /\ CalendarTimestamp(StrictTimestamp(s))

CountOf(s, c) == Cardinality({i \in 1..Len(s) : s[i] = c})

\* A deviation the date parser rejects: a wrong or missing separator, a
\* character that is no digit, separator, sign or whitespace, or the strict
\* form with a field out of range.
Deviates(s) ==
    \/ CountOf(s, ".") # 2
    \/ CountOf(s, ":") # 1
    \/ \E i \in 1..Len(s) :
          s[i] \notin Digits \cup {".", ":", "+", "-"} /\ ~IsWhitespace(s[i])
    \/ StrictForm(s) /\ ~CalendarTimestamp(StrictTimestamp(s))

IsSuccessStatus(status) == status \in 200..299

WellShaped(json) ==
    /\ json.type = "Object"
    /\ "d" \in DOMAIN json.members
    /\ json.members["d"].type = "String"

----------------------------------------------------------------------------
(* The claims *)

\* C1: when a data row of the first emsNumber element has fewer than 5 td
\* cells, _parse_table returns an error with the single cause
\* HtmlStructureError naming the field of the first missing cell of the first
\* such row, however many well-formed rows precede it; it is never a success.
C1_ShortRowFailsWholeParse ==
    (table_result # None /\ HasEmsNumber(table_arg)) =>
        \A i \in 1..Len(DataRowsOf(table_arg)) :
            (/\ TdCount(DataRowsOf(table_arg)[i]) < 5
             /\ \A j \in 1..(i - 1) : TdCount(DataRowsOf(table_arg)[j]) >= 5)
            => unwrap(table_result) =
                   Err(<<HtmlStructureError(
                           MissingCellMessage(TdCount(DataRowsOf(table_arg)[i])))>>)

\* A well-formed row followed by a row of 4 cells has been parsed.
C1_Witness ==
    /\ table_result # None
    /\ HasEmsNumber(table_arg)
    /\ Len(DataRowsOf(table_arg)) = 2
    /\ TdCount(DataRowsOf(table_arg)[1]) >= 5
    /\ TdCount(DataRowsOf(table_arg)[2]) = 4
    /\ IsErr(unwrap(table_result))

\* C2: a data row whose date cell does not parse as a date does not fail the
\* parse: when every data row has its 5 cells the parse succeeds with one
\* record per row, and the record of such a row has date absent and zip_code,
\* description, status and weight from cells 1 to 4 of that row.
C2_UnparseableDateKeepsRow ==
    (/\ table_result # None
     /\ HasEmsNumber(table_arg)
     /\ \A i \in 1..Len(DataRowsOf(table_arg)) : TdCount(DataRowsOf(table_arg)[i]) >= 5)
    => /\ IsOk(unwrap(table_result))
       /\ Len(unwrap(table_result).val) = Len(DataRowsOf(table_arg))
       /\ \A i \in 1..Len(DataRowsOf(table_arg)) :
             DateUnparseable(TdText(DataRowsOf(table_arg)[i], 0)) =>
                 unwrap(table_result).val[i] =
                     [date        |-> None,
                      zip_code    |-> Some(TdText(DataRowsOf(table_arg)[i], 1)),
                      description |-> Some(TdText(DataRowsOf(table_arg)[i], 2)),
                      status      |-> Some(TdText(DataRowsOf(table_arg)[i], 3)),
                      weight      |-> Some(TdText(DataRowsOf(table_arg)[i], 4))]

\* A row with an unparseable date, followed by a row with a date, has been
\* parsed into two records.
C2_Witness ==
    /\ table_result # None
    /\ HasEmsNumber(table_arg)
    /\ Len(DataRowsOf(table_arg)) = 2
    /\ TdCount(DataRowsOf(table_arg)[1]) >= 5
    /\ DateUnparseable(TdText(DataRowsOf(table_arg)[1], 0))
    /\ IsOk(unwrap(table_result))
    /\ unwrap(table_result).val[1].date = None
    /\ unwrap(table_result).val[2].date # None

\* C3: when _parse_table succeeds its output has one record per tr row of the
\* first emsNumber element other than the first row, in document order, each
\* taking its fields from td cells 0 to 4 of its row; a table with zero or one
\* row gives an empty success.
C3_OneRecordPerDataRow ==
    (table_result # None /\ HasEmsNumber(table_arg)) =>
        /\ IsOk(unwrap(table_result)) =>
              /\ Len(unwrap(table_result).val) = Len(DataRowsOf(table_arg))
              /\ \A i \in 1..Len(DataRowsOf(table_arg)) :
                    unwrap(table_result).val[i] = ExpectedRecord(DataRowsOf(table_arg)[i])
        /\ Len(FirstEmsNumber(table_arg).rows) <= 1 => unwrap(table_result) = Ok(<<>>)

\* Two different rows, one of them with cells past index 4, after a first row
\* that itself has 5 td cells, have been parsed into two records.
C3_Witness ==
    /\ table_result # None
    /\ HasEmsNumber(table_arg)
    /\ IsOk(unwrap(table_result))
    /\ Len(unwrap(table_result).val) = 2
    /\ unwrap(table_result).val[1] # unwrap(table_result).val[2]
    /\ TdCount(DataRowsOf(table_arg)[1]) > 5
    /\ TdCount(FirstEmsNumber(table_arg).rows[1]) = 5

\* C8: when no element of the document carries the class emsNumber,
\* _parse_table fails with the single cause
\* HtmlStructureError("Class not found: \"emsNumber\""), whatever other tables
\* and rows the document holds; it is never an empty success.
C8_NoEmsNumberFails ==
    (table_result # None /\ ~HasEmsNumber(table_arg)) =>
        unwrap(table_result) =
            Err(<<HtmlStructureError("Class not found: \"emsNumber\"")>>)

\* A document with tables and rows, none of class emsNumber, has been parsed.
C8_Witness ==
    /\ table_result # None
    /\ ~HasEmsNumber(table_arg)
    /\ Len(table_arg) = 2
    /\ Len(table_arg[2].rows) >= 2

\* C6: _process_response stops at the first failing stage: bytes that are not
\* UTF-8 give Utf8Error; otherwise text that is not JSON gives
\* JsonParserError; otherwise a value that is no object, has no "d", or whose
\* "d" is no string gives ProcessResponseFailedError("Wrong JSON content");
\* otherwise the result is what _parse_table returns for the string under "d".
C6_EnvelopeStages ==
    process_result # None =>
        unwrap(process_result) =
            IF ~response_arg.utf8 THEN Err(<<Utf8Error>>)
            ELSE IF ~response_arg.json THEN Err(<<JsonParserError>>)
            ELSE IF ~WellShaped(response_arg.value)
            THEN Err(<<ProcessResponseFailedError("Wrong JSON content")>>)
            ELSE _parse_table(response_arg.value.members["d"].str)

\* A well-formed envelope has been processed into records.
C6_Witness ==
    /\ process_result # None
    /\ response_arg.utf8
    /\ response_arg.json
    /\ WellShaped(response_arg.value)
    /\ IsOk(unwrap(process_result))
    /\ Len(unwrap(process_result).val) >= 1

\* C7: an Error has at least one cause, and every step on an Error adds
\* exactly one cause at the end of the list and keeps the causes already
\* recorded, so the first cause is the one given at construction.
C7_CausesAppendOnly ==
    /\ [](error # None => Len(unwrap(error)) >= 1)
    /\ [][error # None =>
            /\ error' # None
            /\ Len(unwrap(error')) = Len(unwrap(error)) + 1
            /\ SubSeq(unwrap(error'), 1, Len(unwrap(error))) = unwrap(error)]_vars

\* An Error with causes of different kinds added by caused_by.
C7_Witness ==
    /\ error # None
    /\ Len(unwrap(error)) >= 3
    /\ unwrap(error)[1] # unwrap(error)[2]
    /\ unwrap(error)[2] # unwrap(error)[3]

\* C9 as stated: _parse_date succeeds exactly on the strings of the form
\* DD.MM.YYYY HH:MM with fields in range, with the UTC timestamp of those
\* fields and seconds 0, and fails on every other string.
C9_ExactFormOnly ==
    date_result # None =>
        /\ StrictValid(date_arg) => unwrap(date_result) = Ok(StrictTimestamp(date_arg))
        /\ ~StrictValid(date_arg) => IsErr(unwrap(date_result))

\* C9 as amended: on a string of the form DD.MM.YYYY HH:MM naming a date and
\* time that exist, _parse_date returns the UTC timestamp of those fields with
\* seconds 0; whatever it returns as a success is a timestamp that exists with
\* seconds 0; a failure is the single cause DateTimeParseError; and a string
\* with a wrong or missing separator, a character that is no digit, separator,
\* sign or whitespace, or the strict form with a field out of range fails.
C9_StrictFormAccepted ==
    date_result # None =>
        /\ StrictValid(date_arg) => unwrap(date_result) = Ok(StrictTimestamp(date_arg))
        /\ IsOk(unwrap(date_result)) => CalendarTimestamp(unwrap(date_result).val)
        /\ IsErr(unwrap(date_result)) => unwrap(date_result).val = <<DateTimeParseError>>
        /\ Deviates(date_arg) => IsErr(unwrap(date_result))

\* "24.08.2016 11:35" has been parsed.
C9_Witness ==
    /\ date_result # None
    /\ date_arg = <<"2", "4", ".", "0", "8", ".", "2", "0", "1", "6", " ",
                    "1", "1", ":", "3", "5">>
    /\ IsOk(unwrap(date_result))

\* C4 as stated: _make_request returns the body of every response with a 2xx
\* status whose body can be read, fails on every other status with an error
\* holding a TrackingRequestError cause with that status, and only the body
\* of a 2xx response reaches _process_response.
C4_EverySuccessStatusAccepted ==
    (request_result # None /\ IsOk(unwrap(received))) =>
        /\ (IsSuccessStatus(unwrap(received).val.status) /\ unwrap(received).val.readable)
              => unwrap(request_result) = Ok(unwrap(received).val.body)
        /\ ~IsSuccessStatus(unwrap(received).val.status)
              => /\ IsErr(unwrap(request_result))
                 /\ \E i \in 1..Len(unwrap(request_result).val) :
                       /\ unwrap(request_result).val[i].kind = "TrackingRequestError"
                       /\ unwrap(request_result).val[i].code = unwrap(received).val.status
        /\ processed # None => IsSuccessStatus(unwrap(received).val.status)

\* C5 as stated: when the status is not success and the body cannot be read,
\* the error has the TrackingRequestError (status, no body, the fixed message)
\* as its first cause and the IoError after it.
C5_RejectedFirst ==
    (/\ request_result # None
     /\ IsOk(unwrap(received))
     /\ ~IsSuccessStatus(unwrap(received).val.status)
     /\ ~unwrap(received).val.readable)
    => unwrap(request_result) =
           Err(<<TrackingRequestError(unwrap(received).val.status, None,
                                      Some(REQUEST_MESSAGE)),
                 IoError>>)

\* C5 as amended: when the status is not success and the body cannot be read,
\* the error keeps both causes, the IoError as its first cause and the
\* TrackingRequestError (status, no body, the fixed message) after it.
C5_IoErrorFirst ==
    (/\ request_result # None
     /\ IsOk(unwrap(received))
     /\ ~IsSuccessStatus(unwrap(received).val.status)
     /\ ~unwrap(received).val.readable)
    => unwrap(request_result) =
           Err(<<IoError,
                 TrackingRequestError(unwrap(received).val.status, None,
                                      Some(REQUEST_MESSAGE))>>)

\* A 404 response whose body cannot be read has been turned into an error.
C5_Witness ==
    /\ request_result # None
    /\ IsOk(unwrap(received))
    /\ unwrap(received).val.status = 404
    /\ ~unwrap(received).val.readable
    /\ IsErr(unwrap(request_result))

\* C10: fmt does not panic on an error get_tracking_info returns: whenever
\* the first cause of such an error is a TrackingRequestError, its body is
\* present.
C10_DisplayNeverPanics ==
    (tracking_result # None /\ IsErr(unwrap(tracking_result))) =>
        /\ ~fmt(unwrap(tracking_result).val).panic
        /\ unwrap(tracking_result).val[1].kind = "TrackingRequestError"
              => IsSome(unwrap(tracking_result).val[1].body)

\* get_tracking_info has returned the error of a rejected response whose body
\* could not be read: it holds a TrackingRequestError without a body.
C10_Witness ==
    /\ tracking_result # None
    /\ IsErr(unwrap(tracking_result))
    /\ \E i \in 1..Len(unwrap(tracking_result).val) :
          /\ unwrap(tracking_result).val[i].kind = "TrackingRequestError"
          /\ ~IsSome(unwrap(tracking_result).val[i].body)

====
